---- MODULE Spec2Model ----
(***************************************************************************)
(* Model of the resilient API-access layer of meta-ads-mcp: the credential *)
(* resolver (token-store + TokenManager + the HTTP token middleware), the  *)
(* error classifier and the retrying request executor of MetaApiClient.    *)
(*                                                                         *)
(* JavaScript falsy strings are kept as they are: the empty string "" is   *)
(* "no token" / "no name" (null, undefined and "" all fail the code's      *)
(* truthiness tests in the same way).                                      *)
(***************************************************************************)
EXTENDS Integers, Sequences, FiniteSets, TLC

\* ───────────────────────────── bounds ─────────────────────────────────────
\* largest maxRetries a client is configured with in the model
MaxRetriesBound == 2
\* pages a getPaginated call may fetch after the first one
MaxPages == 1

\* ───────────────────────────── value sets ─────────────────────────────────
\* the inbound calls: the stdio specification runs c1 alone, the server
\* specification runs c1 and c2 concurrently
Calls == {"c1", "c2"}
Names == {"default", "bm1"}
Tokens == {"tokA", "tokB"}
NoToken == ""
NoName == ""

\* vendor error codes: every code the classifier or the executor names, and
\* 9999 for a code neither of them names
Codes == {1, 2, 4, 17, 32, 613, 190, 102, 10, 100, 803, 2650, 9999}
Subcodes == {0, 33}
Statuses == {200, 404, 500}
VendorStatuses == {200, 400}
Methods == {"get", "post", "postForm", "postMultipart", "delete"}

\* ───────────────────────── TokenManager (registry) ────────────────────────
RECURSIVE SetEntries(_, _)
\* loadFromEnv, lines 21-25: tokens.set(name, token) for every entry whose
\* value is a non-empty string, in object order
SetEntries(map, entries) ==
  IF entries = <<>> THEN map
  ELSE LET e == Head(entries)
           m == IF e.token # NoToken THEN [map EXCEPT ![e.name] = e.token] ELSE map
       IN SetEntries(m, Tail(entries))

\* loadFromEnv: the registry after construction from META_TOKENS (entries,
\* in key order; a value that is not a non-empty string is "") and
\* META_ACCESS_TOKEN (singleToken)
LoadFromEnv(entries, singleToken) ==
  LET empty == [n \in Names |-> NoToken]
      loaded == SetEntries(empty, entries)
      firstKey == IF entries = <<>> THEN NoName ELSE Head(entries).name
      act1 == IF firstKey # NoName /\ loaded[firstKey] # NoToken THEN firstKey ELSE NoName
      addDefault == singleToken # NoToken /\ loaded["default"] = NoToken
      toks == IF addDefault THEN [loaded EXCEPT !["default"] = singleToken] ELSE loaded
      act2 == IF addDefault /\ act1 = NoName THEN "default" ELSE act1
  IN [tokens |-> toks, activeTokenName |-> act2]

\* getActiveToken(): string | null
GetActiveToken(toks, active) ==
  IF active = NoName THEN NoToken ELSE toks[active]

\* hasTokens()
HasTokens(toks) == \E n \in Names : toks[n] # NoToken

\* ───────────────────────── credential resolver ────────────────────────────
\* getAccessToken(): the AsyncLocalStorage context of the running call, then
\* the registry's active token, then META_ACCESS_TOKEN; "" stands for the
\* thrown "No Meta access token available" error
\* variants of getAccessToken: META_ACCESS_TOKEN consulted before the
\* registry, and the registry consulted before the request context
GetAccessToken_envBeforeRegistry(ctxToken, toks, active, env) ==
  IF ctxToken # NoToken THEN ctxToken
  ELSE IF env # NoToken THEN env
  ELSE GetActiveToken(toks, active)
GetAccessToken_registryFirst(ctxToken, toks, active, env) ==
  IF GetActiveToken(toks, active) # NoToken THEN GetActiveToken(toks, active)
  ELSE IF ctxToken # NoToken THEN ctxToken
  ELSE env
\* getAccessToken, lines 297-316
GetAccessToken(ctxToken, toks, active, env) ==
  IF ctxToken # NoToken THEN ctxToken
  ELSE IF GetActiveToken(toks, active) # NoToken THEN GetActiveToken(toks, active)
  ELSE IF env # NoToken THEN env
  ELSE NoToken

\* variant that returns whatever it found instead of throwing
TokenMissing_never(t) == FALSE
\* the throw at the end of getAccessToken: no source gave a token
TokenMissing(t) == t = NoToken

\* metaTokenMiddleware: the token put in the request context ("" when next()
\* runs without a context) and whether the request is admitted
MiddlewareToken(headerToken, env) ==
  IF headerToken # NoToken THEN headerToken ELSE env

MiddlewareAdmits(headerToken, env, toks) ==
  MiddlewareToken(headerToken, env) # NoToken \/ HasTokens(toks)

\* ───────────────────────────── error classifier ───────────────────────────
\* mapMetaErrorToMcp: code is the MCP ErrorCode, detail the message family;
\* `quoted` is what the message text shows of the vendor's numbers: the code
\* and the subcode, 0 for a number the text does not contain
McpError(code, detail, quoted, err) ==
  [type |-> "McpError", code |-> code, detail |-> detail, quoted |-> quoted,
   metaCode |-> err.code, subcode |-> err.error_subcode]

NoNumbers == [code |-> 0, subcode |-> 0]

\* variant whose fallback message leaves the code out
MapMetaErrorToMcp_plainFallback(err) ==
  IF err.code \in {190, 102, 10} THEN
    McpError("InvalidRequest",
             IF err.code = 190 THEN "AuthExpired"
             ELSE IF err.code = 10 THEN "PermissionDenied"
             ELSE "AuthRequired", NoNumbers, err)
  ELSE IF err.code \in {4, 17, 32, 613}
    THEN McpError("InvalidRequest", "RateLimited", NoNumbers, err)
  ELSE IF err.code = 100
    THEN McpError("InvalidParams", "InvalidParameter",
                  [code |-> 0, subcode |-> err.error_subcode], err)
  ELSE IF err.code = 803 \/ (err.code = 100 /\ err.error_subcode = 33)
    THEN McpError("InvalidParams", "NotFound", NoNumbers, err)
  ELSE IF err.code = 2650 THEN McpError("InvalidRequest", "Duplicate", NoNumbers, err)
  ELSE IF err.code \in {1, 2}
    THEN McpError("InternalError", "TransientServerError", NoNumbers, err)
  ELSE McpError("InternalError", "Unknown", NoNumbers, err)
\* mapMetaErrorToMcp, branch by branch in the order of the source; the kinds
\* name its message texts
MapMetaErrorToMcp(err) ==
  IF err.code \in {190, 102, 10} THEN
    McpError("InvalidRequest",
             IF err.code = 190 THEN "AuthExpired"
             ELSE IF err.code = 10 THEN "PermissionDenied"
             ELSE "AuthRequired", NoNumbers, err)
  ELSE IF err.code \in {4, 17, 32, 613}
    THEN McpError("InvalidRequest", "RateLimited", NoNumbers, err)
  ELSE IF err.code = 100
    THEN McpError("InvalidParams", "InvalidParameter",
                  [code |-> 0, subcode |-> err.error_subcode], err)
  ELSE IF err.code = 803 \/ (err.code = 100 /\ err.error_subcode = 33)
    THEN McpError("InvalidParams", "NotFound", NoNumbers, err)
  ELSE IF err.code = 2650 THEN McpError("InvalidRequest", "Duplicate", NoNumbers, err)
  ELSE IF err.code \in {1, 2}
    THEN McpError("InternalError", "TransientServerError", NoNumbers, err)
  ELSE McpError("InternalError", "Unknown", [code |-> err.code, subcode |-> 0], err)

\* isMetaApiError(body): an object with an object-valued "error" member
IsMetaApiError(body) == "error" \in DOMAIN body

\* ───────────────────────── transport outcomes ──────────────────────────────
\* bodies: a vendor error payload, a non-error JSON body (a page with or
\* without an `after` cursor), or text that response.json() cannot parse
VendorErrors ==
  {e \in [code : Codes, error_subcode : Subcodes] :
     e.error_subcode = 0 \/ e.code \in {100, 803}}
VendorBodies == {[error |-> e] : e \in VendorErrors}
PlainBodies == {[data |-> "d1", after |-> "a"], [data |-> "d2", after |-> ""]}
BadBodies == {[unparseable |-> TRUE]}

\* what one fetch() can produce: a response, or a rejection (the abort of the
\* timeout controller, or a network failure); hasCode is whether the rejected
\* value has a "code" property, as a DOMException has
\* (a vendor error arrives with status 400; one retried and one terminal
\* code also under a 2xx status, which the executor treats alike)
Responses ==
  {r \in [type : {"response"}, status : VendorStatuses, body : VendorBodies] :
     r.status = 400 \/ r.body.error.code \in {4, 190}}
    \cup [type : {"response"}, status : Statuses, body : PlainBodies]
    \cup [type : {"response"}, status : {200}, body : BadBodies]
Rejections ==
  [type : {"Thrown"}, name : {"AbortError", "TypeError"}, hasCode : BOOLEAN]
Outcomes == Responses \cup Rejections

\* ───────────────────────────── error values ───────────────────────────────
NoError == [type |-> "undefined"]
HttpError(status) == [type |-> "Error", message |-> "HTTP", status |-> status]
TimeoutError == [type |-> "Error", message |-> "Request timeout"]
GenericError == [type |-> "Error", message |-> "Request failed after retries"]
NoTokenError == [type |-> "Error", message |-> "No Meta access token available"]
SyntaxError == [type |-> "Thrown", name |-> "SyntaxError", hasCode |-> FALSE]

\* error instanceof Error && "code" in error
HasCode(e) == e.type = "McpError" \/ (e.type = "Thrown" /\ e.hasCode)
\* error.name === "AbortError"
IsAbortError(e) == e.type = "Thrown" /\ e.name = "AbortError"
\* response.ok
IsOk(status) == status >= 200 /\ status <= 299

\* ─────────────────────── MetaApiClient.execute, one attempt ───────────────
\* the result of an attempt: "return" (value is the body), "throw" (value is
\* the error raised at once), "backoff" (sleep, then the next iteration) or
\* "exit" (fall out of the catch block: the loop ends without a sleep)
Step(next, lastErr, value) == [next |-> next, lastError |-> lastErr, value |-> value]

\* variant of the catch block that leaves out line 280 (lastError = error)
Catch_unrecorded(error, att, maxR, lastErr) ==
  LET abort == IsAbortError(error)
      le1 == IF abort THEN TimeoutError ELSE lastErr
  IN IF abort /\ att < maxR THEN Step("backoff", le1, NoError)
     ELSE IF HasCode(error) THEN Step("throw", le1, error)
     ELSE IF att < maxR THEN Step("backoff", lastErr, NoError)
     ELSE Step("exit", lastErr, NoError)
\* the catch block, lines 263-285
Catch(error, att, maxR, lastErr) ==
  LET abort == IsAbortError(error)
      le1 == IF abort THEN TimeoutError ELSE lastErr
  IN IF abort /\ att < maxR THEN Step("backoff", le1, NoError)
     ELSE IF HasCode(error) THEN Step("throw", le1, error)
     ELSE IF att < maxR THEN Step("backoff", error, NoError)
     ELSE Step("exit", error, NoError)

\* the codes the executor rethrows before looking at retryability, line 222
IsNoRetryCode(code) == code \in {190, 100, 10}
\* variants of the retry test: the "Retry server errors" branch left out, and
\* "object not found" retried as well
IsRetryCode_rateLimitOnly(code) == code \in {4, 17, 32}
IsRetryCode_with803(code) == code \in {4, 17, 32} \/ code \in {1, 2, 803}
\* the vendor codes the executor retries, lines 231-246
IsRetryCode(code) == code \in {4, 17, 32} \/ code \in {1, 2}

\* the try block after fetch() settled, lines 210-262
Attempt(o, att, maxR, lastErr) ==
  IF o.type = "Thrown" THEN Catch(o, att, maxR, lastErr)
  ELSE IF "unparseable" \in DOMAIN o.body THEN Catch(SyntaxError, att, maxR, lastErr)
  ELSE IF IsMetaApiError(o.body) THEN
    LET mcpError == MapMetaErrorToMcp(o.body.error) IN
    IF IsNoRetryCode(o.body.error.code) THEN Catch(mcpError, att, maxR, lastErr)
    ELSE IF IsRetryCode(o.body.error.code) THEN Step("backoff", mcpError, NoError)
    ELSE Catch(mcpError, att, maxR, lastErr)
  ELSE IF ~IsOk(o.status) THEN
    IF o.status >= 500 THEN Step("backoff", HttpError(o.status), NoError)
    ELSE Catch(HttpError(o.status), att, maxR, HttpError(o.status))
  ELSE Step("return", lastErr, o.body)

\* Math.random() is drawn in steps of 1/JitterSteps: random stands for the
\* number random / JitterSteps in [0, 1)
JitterSteps == 10
Randoms == 0..(JitterSteps - 1)
RETRY_BASE_DELAY == 1000

\* variant that takes the jitter off the delay
Backoff_early(attempt, random) ==
  LET delay == RETRY_BASE_DELAY * 2^attempt
      jitter == (random * delay) \div (JitterSteps * 10)
  IN delay - jitter
\* backoff(attempt): the milliseconds its timer is set to, delay + jitter with
\* jitter = Math.random() * delay * 0.1, in whole milliseconds
Backoff(attempt, random) ==
  LET delay == RETRY_BASE_DELAY * 2^attempt
      jitter == (random * delay) \div (JitterSteps * 10)
  IN delay + jitter

\* ─────────────────────────────── paginator ────────────────────────────────
MaxPageLen == 2
MaxItemsBound == 3
MaxFetches == 2

Items == {1, 2}
Cursors == {"a", "b"}
NoCursor == ""
NoLink == ""

SeqsUpTo(S, n) == UNION {[1..k -> S] : k \in 0..n}

\* a page's `paging`: `after` is paging?.cursors?.after and `next` is
\* paging?.next, "" when the property or one of its parents is missing
Pagings == [after : Cursors \cup {NoCursor}, next : {NoLink, "url"}]
Pages == [data : SeqsUpTo(Items, MaxPageLen), paging : Pagings]

HasNextPage(paging) == paging.next # NoLink \/ paging.after # NoCursor

GetAfterCursor(paging) == paging.after

\* variant that returns everything collected
Slice_whole(items, n) == items
\* items.slice(0, n) for n >= 0
Slice(items, n) == SubSeq(items, 1, IF n < Len(items) THEN n ELSE Len(items))

\* variant that goes on whenever hasNextPage says so
CollectLoop_followsNext(p) ==
  IF Len(p.items) < p.maxItems /\ HasNextPage(p.paging)
    THEN [p EXCEPT !.pc = "await", !.cursors = Append(@, GetAfterCursor(p.paging))]
    ELSE [p EXCEPT !.pc = "returned", !.result = Slice(p.items, p.maxItems)]
\* the while statement from its test to the next await or to the return
CollectLoop(p) ==
  IF /\ Len(p.items) < p.maxItems
     /\ HasNextPage(p.paging)
     /\ GetAfterCursor(p.paging) # NoCursor
    THEN [p EXCEPT !.pc = "await", !.cursors = Append(@, GetAfterCursor(p.paging))]
    ELSE [p EXCEPT !.pc = "returned", !.result = Slice(p.items, p.maxItems)]

\* no collectAllPages() run has started
IdlePager ==
  [pc |-> "idle",        \* idle, await, returned, rejected
   maxItems |-> 0,       \* the limit the run was called with
   items |-> <<>>,       \* the local `items`
   paging |-> [after |-> NoCursor, next |-> NoLink],  \* the local `paging`
   cursors |-> <<>>,     \* the argument of every fetchPage() call, in order
   seen |-> <<>>,        \* the first page and every page fetchPage() gave
   result |-> <<>>]      \* the array returned

\* ────────────────────────────── rate limiter ──────────────────────────────
\* Usage figures are JSON numbers; the model counts them in steps of
\* 1/UsageScale of a percent and computes with exact arithmetic.
UsageScale == 2
MaxUsage == 102

Percent(p) == p * UsageScale
Usages == 0..Percent(MaxUsage)

\* a metric the usage object does not have (undefined)
Missing == -1
UsageObject(cc, cpu, time) ==
  [call_count |-> cc, total_cputime |-> cpu, total_time |-> time]

\* the value of a usage header: no header, text that JSON.parse rejects, or
\* the parsed JSON
Absent == [kind |-> "absent"]
Malformed == [kind |-> "malformed"]
Json(v) == [kind |-> "json", value |-> v]

\* the call_count figures swept: every whole percentage, and every step
\* from 70 percent up
SweptUsages == {Percent(p) : p \in 0..MaxUsage} \cup {u \in Usages : u >= Percent(70)}

\* x-app-usage: one usage object
AppObjects ==
  {UsageObject(u, Missing, Missing) : u \in SweptUsages} \cup
  [call_count : {Missing, Percent(50), Percent(90)},
   total_cputime : {Missing, Percent(50), Percent(90)},
   total_time : {Missing, Percent(50), Percent(90)}]
AppHeaders == {Absent, Malformed} \cup {Json(o) : o \in AppObjects}

\* x-business-use-case-usage: the accounts in key order, each a list of
\* usage objects
BusinessObjects ==
  {UsageObject(Percent(80), Missing, Missing),
   UsageObject(Percent(10), Percent(96), 0)}
BusinessAccounts == SeqsUpTo(BusinessObjects, 2)
BusinessHeaders ==
  {Absent, Malformed} \cup
  {Json(<<>>)} \cup
  {Json(<<a>>) : a \in BusinessAccounts} \cup
  {Json(<<a, b>>) : a, b \in SeqsUpTo(BusinessObjects, 1)}

\* the headers of a response: either header alone, or both
HeaderSets ==
  [app : AppHeaders, business : {Absent}] \cup
  [app : {Absent}, business : BusinessHeaders] \cup
  [app : {Malformed, Json(UsageObject(Percent(50), 0, 0))},
   business : {Malformed, Json(<<<<UsageObject(Percent(80), 0, 0)>>>>)}]

Max(a, b) == IF a >= b THEN a ELSE b

\* `metric ?? 0`
OrZero(metric) == IF metric = Missing THEN 0 ELSE metric

\* variant that reads call_count only
ObjectMax_callCount(o) == OrZero(o.call_count)
\* Math.max(call_count ?? 0, total_cputime ?? 0, total_time ?? 0)
ObjectMax(o) ==
  Max(OrZero(o.call_count), Max(OrZero(o.total_cputime), OrZero(o.total_time)))

\* the inner for statement over one account's entries
RECURSIVE EntriesMax(_, _)
EntriesMax(maxUsage, entries) ==
  IF entries = <<>> THEN maxUsage
  ELSE EntriesMax(Max(maxUsage, ObjectMax(Head(entries))), Tail(entries))

\* the outer for statement over Object.values(usage)
RECURSIVE AccountsMax(_, _)
AccountsMax(maxUsage, accounts) ==
  IF accounts = <<>> THEN maxUsage
  ELSE AccountsMax(EntriesMax(maxUsage, Head(accounts)), Tail(accounts))

\* variant without the try statements, and whose failed parse clears the figure
UpdateFromHeaders_resetting(st, headers) ==
  [appUsagePercent |->
     IF headers.app.kind = "json" THEN ObjectMax(headers.app.value) ELSE 0,
   accountUsagePercent |->
     IF headers.business.kind = "json" THEN AccountsMax(0, headers.business.value) ELSE 0,
   completion |->
     IF Malformed \in {headers.app, headers.business} THEN "throw" ELSE "return"]
\* updateFromHeaders: a header that is absent (or empty) skips its block, a
\* header JSON.parse rejects leaves its block through the empty catch
UpdateFromHeaders(st, headers) ==
  [appUsagePercent |->
     IF headers.app.kind = "json"
       THEN ObjectMax(headers.app.value) ELSE st.appUsagePercent,
   accountUsagePercent |->
     IF headers.business.kind = "json"
       THEN AccountsMax(0, headers.business.value) ELSE st.accountUsagePercent,
   completion |-> "return"]

\* Math.round(num / den) for num >= 0 and den > 0
Round(num, den) == (2 * num + den) \div (2 * den)

\* variant that stops growing at 100 percent
GetThrottleDelay_capped(app, account) ==
  LET usage == Max(app, account) IN
  IF usage < Percent(75) THEN 0
  ELSE IF usage < Percent(95)
    THEN Round(100 * 20 * UsageScale + (usage - Percent(75)) * 1900, 20 * UsageScale)
  ELSE IF usage > Percent(100) THEN 60000
  ELSE Round(5000 * 5 * UsageScale + (usage - Percent(95)) * 55000, 5 * UsageScale)
\* variant that starts throttling at 70 percent
GetThrottleDelay_from70(app, account) ==
  LET usage == Max(app, account) IN
  IF usage < Percent(70) THEN 0
  ELSE IF usage < Percent(95)
    THEN Round(100 * 25 * UsageScale + (usage - Percent(70)) * 1900, 25 * UsageScale)
  ELSE Round(5000 * 5 * UsageScale + (usage - Percent(95)) * 55000, 5 * UsageScale)
\* getThrottleDelay: 100 + ((usage - 75) / 20) * 1900 and
\* 5000 + ((usage - 95) / 5) * 55000, rounded
GetThrottleDelay(app, account) ==
  LET usage == Max(app, account) IN
  IF usage < Percent(75) THEN 0
  ELSE IF usage < Percent(95)
    THEN Round(100 * 20 * UsageScale + (usage - Percent(75)) * 1900, 20 * UsageScale)
  ELSE Round(5000 * 5 * UsageScale + (usage - Percent(95)) * 55000, 5 * UsageScale)

\* get currentUsage
CurrentUsage(app, account) == Max(app, account)

\* the RateLimiter after construction
NewLimiter ==
  [appUsagePercent |-> 0,
   accountUsagePercent |-> 0,
   headers |-> [app |-> Absent, business |-> Absent],  \* of the last update
   completion |-> "none",       \* how the last update ended: return, throw
   read |-> <<>>]               \* the last getter result since that update

\* the headers of an outcome; a response written without headers carries
\* neither usage header
HeadersOf(o) ==
  IF "headers" \in DOMAIN o THEN o.headers ELSE [app |-> Absent, business |-> Absent]

\* the limiter after updateFromHeaders(headers)
Updated(lim, headers) ==
  LET r == UpdateFromHeaders(lim, headers) IN
  [lim EXCEPT !.appUsagePercent = r.appUsagePercent,
              !.accountUsagePercent = r.accountUsagePercent,
              !.headers = headers,
              !.completion = r.completion,
              !.read = <<>>]

\* variant that reads the headers of 2xx responses only
Tracked_okOnly(lim, o) ==
  IF o.type = "response" /\ IsOk(o.status) THEN Updated(lim, HeadersOf(o)) ELSE lim
\* the limiter once fetch() settled with o: every response passes line 213,
\* a rejection jumps to the catch block before it
Tracked(lim, o) ==
  IF o.type = "response" THEN Updated(lim, HeadersOf(o)) ELSE lim

\* ───────────────────────────── token registry ─────────────────────────────
MaxCalls == 3

\* variant that reports success for every name
SetActiveTokenReturns_always(toks, n) == TRUE
\* the value setActiveToken(name) returns
SetActiveTokenReturns(toks, n) == toks[n] # NoToken

\* variant that lists the token values
ListTokens_values(toks, active) ==
  [active |-> active, available |-> {toks[n] : n \in {m \in Names : toks[m] # NoToken}}]
\* listTokens(): the active name and the keys of the map
ListTokens(toks, active) ==
  [active |-> active, available |-> {n \in Names : toks[n] # NoToken}]

\* ───────────────────────────────── state ──────────────────────────────────
VARIABLES
  transport,        \* "stdio" or "http": the transport the process started
  envToken,         \* process.env.META_ACCESS_TOKEN ("" when unset)
  tokens,           \* TokenManager.tokens: name -> token ("" when absent)
  activeTokenName,  \* TokenManager.activeTokenName ("" for null)
  maxRetries,       \* MetaApiClient.maxRetries of the singleton client
  call,             \* per inbound call: its context and its execute() frame
  requests,         \* every request handed to fetch(), as the transport saw it
  pager,            \* the frame of a collectAllPages() run
  limiter,          \* the RateLimiter singleton and its last calls
  replies           \* what the TokenManager calls returned, in call order

vars == <<transport, envToken, tokens, activeTokenName, maxRetries, call, requests,
          pager, limiter, replies>>

\* an inbound call that has not arrived yet
IdleCall ==
  [pc |-> "idle",          \* idle, handler, rejected, throttle, inflight,
                           \* backoff, returned, raised
   header |-> NoToken,     \* the X-Meta-Token header it arrived with
   ctx |-> NoToken,        \* requestContext.getStore()?.accessToken
   method |-> "",          \* the facade method the tool handler called
   token |-> NoToken,      \* execute's local `token`
   formToken |-> NoToken,  \* the access_token field of a multipart body
   attempt |-> 0,          \* execute's loop counter
   lastError |-> NoError,  \* execute's `lastError`
   result |-> NoError,     \* the body returned or the error raised
   sends |-> 0,            \* fetch() invocations of the current execute
   sleeps |-> 0,           \* backoff() sleeps of the current execute
   history |-> <<>>,       \* the outcomes the current execute received
   pages |-> 0,            \* pages getPaginated fetched after the first
   throttles |-> 0,        \* waitIfNeeded() calls of the current execute
   throttleMs |-> 0,       \* the delay the last waitIfNeeded() slept
   backoffMs |-> 0,        \* the delay of the backoff() sleep in progress
   pending |-> NoError,    \* the response whose body is being read
   aborted |-> FALSE,      \* the inbound call was cancelled by its sender
   lateSends |-> 0]        \* fetch() invocations after that cancellation

\* the request context: AsyncLocalStorage gives every inbound call its own
\* store, so the store is a field of the call

\* variant that ignores skipTokenParam
Request_tokenInQuery(c, cl) ==
  [call |-> c, method |-> cl.method, queryToken |-> cl.token, formToken |-> cl.formToken]
\* appendToken / skipTokenParam: what a request to fetch() carries
Request(c, cl) ==
  [call |-> c, method |-> cl.method,
   queryToken |-> IF cl.method = "postMultipart" THEN NoToken ELSE cl.token,
   formToken |-> cl.formToken]

\* the for statement's test and the fetch() of the iteration it admits, or
\* the throw after the loop (lines 196, 204, 288-289)
Iterate(c, cl) ==
  IF cl.attempt <= maxRetries
    THEN /\ call' = [call EXCEPT ![c] =
                       [cl EXCEPT !.pc = "inflight", !.sends = @ + 1,
                                  !.lateSends = IF cl.aborted THEN @ + 1 ELSE @]]
         /\ requests' = requests \cup {Request(c, cl)}
    ELSE /\ call' = [call EXCEPT ![c] =
                       [cl EXCEPT !.pc = "raised",
                                  !.result = IF cl.lastError = NoError
                                               THEN GenericError ELSE cl.lastError]]
         /\ UNCHANGED requests

Registry(r) ==
  /\ tokens = r.tokens
  /\ activeTokenName = r.activeTokenName

\* META_TOKENS as the entries of the parsed object, in key order; a value
\* that is not a non-empty string is ""; no entries also stands for an unset
\* variable and for text that does not parse to an object
EnvEntries == [name : Names, token : Tokens \cup {NoToken}]
MetaTokensEnvs ==
  {s \in UNION {[1..n -> EnvEntries] : n \in 0..Cardinality(Names)} :
     \A i, j \in DOMAIN s : i # j => s[i].name # s[j].name}

\* ──────────────────────────────── actions ─────────────────────────────────
\* a tool call arriving on the stdio transport: no request context is set
StdioRequest(c) ==
  /\ transport = "stdio"
  /\ call[c].pc = "idle"
  /\ call' = [call EXCEPT ![c].pc = "handler"]
  /\ UNCHANGED <<transport, envToken, tokens, activeTokenName, maxRetries, requests, pager, limiter, replies>>

\* POST /mcp through metaTokenMiddleware, with X-Meta-Token h ("" when absent)
HttpRequest(c, h) ==
  /\ transport = "http"
  /\ call[c].pc = "idle"
  /\ call' = [call EXCEPT ![c] =
        IF MiddlewareAdmits(h, envToken, tokens)
          THEN [@ EXCEPT !.pc = "handler", !.header = h,
                         !.ctx = MiddlewareToken(h, envToken)]
          ELSE [@ EXCEPT !.pc = "rejected", !.header = h]]
  /\ UNCHANGED <<transport, envToken, tokens, activeTokenName, maxRetries, requests, pager, limiter, replies>>

\* the tool handler calls a facade method, which runs up to execute's first
\* await (rateLimiter.waitIfNeeded); postMultipart resolves the token first
FacadeCall(c, m) ==
  /\ call[c].pc = "handler"
  /\ LET t == GetAccessToken(call[c].ctx, tokens, activeTokenName, envToken) IN
     call' = [call EXCEPT ![c] =
        IF m = "postMultipart" /\ TokenMissing(t)
          THEN [@ EXCEPT !.method = m, !.pc = "raised", !.result = NoTokenError]
          ELSE [@ EXCEPT !.method = m, !.pc = "throttle",
                         !.formToken = IF m = "postMultipart" THEN t ELSE NoToken,
                         !.throttles = 1,
                         !.throttleMs = GetThrottleDelay(limiter.appUsagePercent,
                                                         limiter.accountUsagePercent)]]
  /\ UNCHANGED <<transport, envToken, tokens, activeTokenName, maxRetries, requests, pager, limiter, replies>>

\* execute after the throttle wait: resolve the token, build the URL, enter
\* the loop and hand the first request to fetch()
Execute(c) ==
  /\ call[c].pc = "throttle"
  /\ LET t == GetAccessToken(call[c].ctx, tokens, activeTokenName, envToken) IN
     IF TokenMissing(t)
       THEN /\ call' = [call EXCEPT ![c].pc = "raised", ![c].result = NoTokenError]
            /\ UNCHANGED requests
       ELSE Iterate(c, [call[c] EXCEPT !.token = t, !.attempt = 0, !.lastError = NoError])
  /\ UNCHANGED <<transport, envToken, tokens, activeTokenName, maxRetries, pager, limiter, replies>>

\* the attempt of call c, given outcome o, runs to its next await, to its
\* return or to its throw; random is the Math.random() draw of backoff()
Settle(c, cl, o, random) ==
  LET r == Attempt(o, cl.attempt, maxRetries, cl.lastError)
      seen == [cl EXCEPT !.history = Append(@, o), !.lastError = r.lastError,
                         !.pending = NoError]
  IN CASE r.next = "return" ->
            /\ call' = [call EXCEPT ![c] = [seen EXCEPT !.pc = "returned", !.result = r.value]]
            /\ UNCHANGED requests
       [] r.next = "throw" ->
            /\ call' = [call EXCEPT ![c] = [seen EXCEPT !.pc = "raised", !.result = r.value]]
            /\ UNCHANGED requests
       [] r.next = "backoff" ->
            /\ call' = [call EXCEPT ![c] =
                          [seen EXCEPT !.pc = "backoff", !.sleeps = @ + 1,
                                       !.backoffMs = Backoff(cl.attempt, random)]]
            /\ UNCHANGED requests
       [] r.next = "exit" ->
            Iterate(c, [seen EXCEPT !.attempt = @ + 1])

\* fetch() settles with outcome o, a response whose body arrives with its
\* headers or a rejection: clearTimeout, updateFromHeaders, response.json()
\* and the rest of the attempt
Respond(c, o, random) ==
  /\ call[c].pc = "inflight"
  /\ Settle(c, call[c], o, random)
  /\ limiter' = Tracked(limiter, o)
  /\ UNCHANGED <<transport, envToken, tokens, activeTokenName, maxRetries, pager, replies>>

\* fetch() resolves with the response o while its body is still on the way:
\* clearTimeout, updateFromHeaders, and the await of response.json()
HeadersArrive(c, o) ==
  /\ call[c].pc = "inflight"
  /\ o.type = "response"
  /\ call' = [call EXCEPT ![c].pc = "reading", ![c].pending = o]
  /\ limiter' = Tracked(limiter, o)
  /\ UNCHANGED <<transport, envToken, tokens, activeTokenName, maxRetries, requests,
                 pager, replies>>

\* response.json() settles: the rest of the attempt
BodyArrives(c, random) ==
  /\ call[c].pc = "reading"
  /\ Settle(c, call[c], call[c].pending, random)
  /\ UNCHANGED <<transport, envToken, tokens, activeTokenName, maxRetries, pager,
                 limiter, replies>>

\* the timer of the attempt fires while fetch() is pending: controller.abort()
\* makes fetch() reject with an AbortError; the timer is cleared as soon as
\* fetch() resolves, so it cannot fire later
TimeoutFires(c, hasCode, random) ==
  /\ call[c].pc = "inflight"
  /\ Settle(c, call[c], [type |-> "Thrown", name |-> "AbortError", hasCode |-> hasCode],
            random)
  /\ UNCHANGED <<transport, envToken, tokens, activeTokenName, maxRetries, pager,
                 limiter, replies>>

\* the sender cancels the inbound call while execute runs: execute takes no
\* signal and no handler passes one, so nothing in the client changes
AbortInbound(c) ==
  /\ call[c].pc \in {"throttle", "inflight", "reading", "backoff"}
  /\ ~call[c].aborted
  /\ call' = [call EXCEPT ![c].aborted = TRUE]
  /\ UNCHANGED <<transport, envToken, tokens, activeTokenName, maxRetries, requests,
                 pager, limiter, replies>>

\* the backoff sleep ends: `continue`, attempt++, the loop test, next fetch()
BackoffDone(c) ==
  /\ call[c].pc = "backoff"
  /\ Iterate(c, [call[c] EXCEPT !.attempt = @ + 1, !.backoffMs = 0])
  /\ UNCHANGED <<transport, envToken, tokens, activeTokenName, maxRetries, pager, limiter, replies>>

\* getPaginated: the page just returned has an `after` cursor and the item
\* limit is not reached, so collectAllPages calls this.get() again
FetchNextPage(c) ==
  /\ call[c].pc = "returned"
  /\ call[c].method = "getPaginated"
  /\ call[c].result.after # ""
  /\ call[c].pages < MaxPages
  /\ call' = [call EXCEPT ![c] =
        [@ EXCEPT !.pc = "throttle", !.pages = @ + 1, !.result = NoError,
                  !.sends = 0, !.sleeps = 0, !.history = <<>>,
                  !.throttles = 1,
                  !.throttleMs = GetThrottleDelay(limiter.appUsagePercent,
                                                  limiter.accountUsagePercent)]]
  /\ UNCHANGED <<transport, envToken, tokens, activeTokenName, maxRetries, requests, pager, limiter, replies>>

\* variant that makes every registered name the active one
RegisterToken_activating(n, t) ==
  /\ tokens' = [tokens EXCEPT ![n] = t]
  /\ activeTokenName' = n
  /\ UNCHANGED <<transport, envToken, maxRetries, call, requests, pager, limiter>>
\* TokenManager.registerToken(name, token)
RegisterToken(n, t) ==
  /\ tokens' = [tokens EXCEPT ![n] = t]
  /\ activeTokenName' = IF activeTokenName = NoName THEN n ELSE activeTokenName
  /\ UNCHANGED <<transport, envToken, maxRetries, call, requests, pager, limiter>>

\* variant without the has(name) test
SetActiveToken_unchecked(n) ==
  /\ activeTokenName' = n
  /\ UNCHANGED <<transport, envToken, tokens, maxRetries, call, requests, pager, limiter>>
\* TokenManager.setActiveToken(name); an unknown name changes nothing
SetActiveToken(n) ==
  /\ activeTokenName' = IF tokens[n] = NoToken THEN activeTokenName ELSE n
  /\ UNCHANGED <<transport, envToken, tokens, maxRetries, call, requests, pager, limiter>>

\* collectAllPages(firstPage, fetchPage, maxItems) up to its first await
CollectAllPages(first, max) ==
  /\ pager.pc = "idle"
  /\ pager' = CollectLoop([IdlePager EXCEPT !.maxItems = max, !.items = first.data,
                                            !.paging = first.paging, !.seen = <<first>>])
  /\ UNCHANGED <<transport, envToken, tokens, activeTokenName, maxRetries, call,
                 requests, limiter, replies>>

\* fetchPage(after) resolves with a page: push its items, take its paging,
\* test the loop again
FetchPageResolves(page) ==
  /\ pager.pc = "await"
  /\ pager' = CollectLoop([pager EXCEPT !.items = @ \o page.data, !.paging = page.paging,
                                        !.seen = Append(@, page)])
  /\ Len(pager'.cursors) <= MaxFetches
  /\ UNCHANGED <<transport, envToken, tokens, activeTokenName, maxRetries, call,
                 requests, limiter, replies>>

\* fetchPage(after) rejects: the await throws out of collectAllPages
FetchPageRejects ==
  /\ pager.pc = "await"
  /\ pager' = [pager EXCEPT !.pc = "rejected"]
  /\ UNCHANGED <<transport, envToken, tokens, activeTokenName, maxRetries, call,
                 requests, limiter, replies>>

\* a response arrives and execute hands its headers to updateFromHeaders
ResponseHeaders(headers) ==
  /\ limiter' = Updated(limiter, headers)
  /\ UNCHANGED <<transport, envToken, tokens, activeTokenName, maxRetries, call,
                 requests, pager, replies>>

\* waitIfNeeded up to its await: the delay it asks getThrottleDelay for
WaitIfNeeded ==
  /\ limiter' = [limiter EXCEPT !.read =
        <<[op |-> "getThrottleDelay",
           value |-> GetThrottleDelay(limiter.appUsagePercent, limiter.accountUsagePercent)]>>]
  /\ UNCHANGED <<transport, envToken, tokens, activeTokenName, maxRetries, call,
                 requests, pager, replies>>

\* a reader of the currentUsage getter
ReadCurrentUsage ==
  /\ limiter' = [limiter EXCEPT !.read =
        <<[op |-> "currentUsage",
           value |-> CurrentUsage(limiter.appUsagePercent, limiter.accountUsagePercent)]>>]
  /\ UNCHANGED <<transport, envToken, tokens, activeTokenName, maxRetries, call,
                 requests, pager, replies>>

\* the registry a TokenManager call finds
Found == [tokens |-> tokens, activeTokenName |-> activeTokenName]

\* a caller of registerToken (meta_ads_register_token after its validation)
CallRegisterToken(n, t) ==
  /\ Len(replies) < MaxCalls
  /\ RegisterToken(n, t)
  /\ replies' = Append(replies, [op |-> "registerToken", name |-> n, token |-> t,
                                 found |-> Found])

\* a caller of setActiveToken (meta_ads_set_active_token)
CallSetActiveToken(n) ==
  /\ Len(replies) < MaxCalls
  /\ SetActiveToken(n)
  /\ replies' = Append(replies, [op |-> "setActiveToken", name |-> n,
                                 value |-> SetActiveTokenReturns(tokens, n),
                                 found |-> Found])

\* a caller of listTokens (meta_ads_list_tokens)
CallListTokens ==
  /\ Len(replies) < MaxCalls
  /\ replies' = Append(replies, [op |-> "listTokens",
                                 value |-> ListTokens(tokens, activeTokenName),
                                 found |-> Found])
  /\ UNCHANGED <<transport, envToken, tokens, activeTokenName, maxRetries, call,
                 requests, pager, limiter>>

\* getAccessToken() outside any request context; "" stands for its throw
CallGetAccessToken ==
  /\ Len(replies) < MaxCalls
  /\ replies' = Append(replies, [op |-> "getAccessToken",
                                 value |-> GetAccessToken(NoToken, tokens, activeTokenName, envToken),
                                 found |-> Found])
  /\ UNCHANGED <<transport, envToken, tokens, activeTokenName, maxRetries, call,
                 requests, pager, limiter>>

\* ───────────────────────────── specifications ─────────────────────────────
\* one tool call on the stdio transport, under every transport outcome; the
\* jitter of its backoff sleeps is the least one (SpecClient draws them all)
AllMethods == Methods \cup {"getPaginated"}

Init ==
  /\ transport = "stdio"
  /\ envToken \in {NoToken, "tokA"}
  /\ Registry(LoadFromEnv(<<>>, envToken))
  /\ maxRetries \in 0..MaxRetriesBound
  /\ call = [c \in Calls |-> IdleCall]
  /\ requests = {}
  /\ pager = IdlePager
  /\ limiter = NewLimiter
  /\ replies = <<>>

Next ==
  \E c \in {"c1"} :
    \/ StdioRequest(c)
    \/ \E m \in AllMethods : FacadeCall(c, m)
    \/ Execute(c)
    \/ \E o \in Outcomes : Respond(c, o, 0)
    \/ BackoffDone(c)
    \/ FetchNextPage(c)

Spec == Init /\ [][Next]_vars

\* the server under concurrent inbound calls and registry operations; the
\* transport answers with one outcome of each way an attempt can go on
ServerMethods == {"get", "postMultipart"}
ServerOutcomes ==
  {[type |-> "response", status |-> 200, body |-> [data |-> "d2", after |-> ""]],
   [type |-> "response", status |-> 400, body |-> [error |-> [code |-> 4, error_subcode |-> 0]]],
   [type |-> "response", status |-> 400, body |-> [error |-> [code |-> 190, error_subcode |-> 0]]]}

InitServer ==
  /\ transport \in {"stdio", "http"}
  /\ envToken \in Tokens \cup {NoToken}
  /\ \E entries \in MetaTokensEnvs : Registry(LoadFromEnv(entries, envToken))
  /\ maxRetries = MaxRetriesBound
  /\ call = [c \in Calls |-> IdleCall]
  /\ requests = {}
  /\ pager = IdlePager
  /\ limiter = NewLimiter
  /\ replies = <<>>

NextServer ==
  \/ \E c \in Calls :
       \/ StdioRequest(c)
       \/ \E h \in Tokens \cup {NoToken} : HttpRequest(c, h)
       \/ \E m \in ServerMethods : FacadeCall(c, m)
       \/ Execute(c)
       \/ \E o \in ServerOutcomes : Respond(c, o, 0)
       \/ BackoffDone(c)
  \/ \E n \in Names, t \in Tokens : RegisterToken(n, t) /\ UNCHANGED replies
  \/ \E n \in Names : SetActiveToken(n) /\ UNCHANGED replies

SpecServer == InitServer /\ [][NextServer]_vars

\* a server that has served no call yet, with nothing in its environment
Quiet ==
  /\ transport = "stdio"
  /\ envToken = NoToken
  /\ Registry(LoadFromEnv(<<>>, NoToken))
  /\ maxRetries = 0
  /\ call = [c \in Calls |-> IdleCall]
  /\ requests = {}

\* one collectAllPages() run over every first page, limit and continuation
InitPager ==
  /\ Quiet
  /\ pager = IdlePager
  /\ limiter = NewLimiter
  /\ replies = <<>>

NextPager ==
  \/ \E first \in Pages, max \in 0..MaxItemsBound : CollectAllPages(first, max)
  \/ \E page \in Pages : FetchPageResolves(page)
  \/ FetchPageRejects

SpecPager == InitPager /\ [][NextPager]_vars

\* the rate limiter under every sequence of response headers
InitLimiter ==
  /\ Quiet
  /\ pager = IdlePager
  /\ limiter = NewLimiter
  /\ replies = <<>>

NextLimiter ==
  \/ \E headers \in HeaderSets : ResponseHeaders(headers)
  \/ WaitIfNeeded
  \/ ReadCurrentUsage

SpecLimiter == InitLimiter /\ [][NextLimiter]_vars

\* the token registry from every environment, under every sequence of calls
InitRegistry ==
  /\ transport = "stdio"
  /\ envToken \in Tokens \cup {NoToken}
  /\ \E entries \in MetaTokensEnvs : Registry(LoadFromEnv(entries, envToken))
  /\ maxRetries = 0
  /\ call = [c \in Calls |-> IdleCall]
  /\ requests = {}
  /\ pager = IdlePager
  /\ limiter = NewLimiter
  /\ replies = <<>>

NextRegistry ==
  \/ \E n \in Names, t \in Tokens : CallRegisterToken(n, t)
  \/ \E n \in Names : CallSetActiveToken(n)
  \/ CallListTokens
  \/ CallGetAccessToken

SpecRegistry == InitRegistry /\ [][NextRegistry]_vars

\* one execute() call against a server that may send the headers of a
\* response and stall before its body, with usage headers on its responses,
\* every draw of the jitter, and a sender that may cancel the call
Usage(p) == [app |-> Json(UsageObject(Percent(p), Missing, Missing)), business |-> Absent]
NoUsage == [app |-> Absent, business |-> Absent]
ClientResponses ==
  {[type |-> "response", status |-> 200, headers |-> NoUsage,
    body |-> [data |-> "d2", after |-> ""]],
   [type |-> "response", status |-> 400, headers |-> NoUsage,
    body |-> [error |-> [code |-> 4, error_subcode |-> 0]]],
   [type |-> "response", status |-> 400, headers |-> Usage(80),
    body |-> [error |-> [code |-> 4, error_subcode |-> 0]]],
   [type |-> "response", status |-> 400, headers |-> Usage(80),
    body |-> [error |-> [code |-> 190, error_subcode |-> 0]]],
   [type |-> "response", status |-> 500, headers |-> Usage(80),
    body |-> [data |-> "d2", after |-> ""]],
   [type |-> "response", status |-> 500, headers |-> Usage(10),
    body |-> [data |-> "d2", after |-> ""]],
   [type |-> "response", status |-> 200, headers |-> Usage(80),
    body |-> [unparseable |-> TRUE]]}
NetworkFailure == [type |-> "Thrown", name |-> "TypeError", hasCode |-> FALSE]

InitClient ==
  /\ transport = "stdio"
  /\ envToken = "tokA"
  /\ Registry(LoadFromEnv(<<>>, envToken))
  /\ maxRetries \in 0..MaxRetriesBound
  /\ call = [c \in Calls |-> IdleCall]
  /\ requests = {}
  /\ pager = IdlePager
  /\ limiter = NewLimiter
  /\ replies = <<>>

NextClient ==
  \E c \in {"c1"} :
    \/ StdioRequest(c)
    \/ FacadeCall(c, "get")
    \/ Execute(c)
    \/ \E o \in ClientResponses : HeadersArrive(c, o)
    \/ \E random \in Randoms : BodyArrives(c, random)
    \/ \E random \in Randoms : Respond(c, NetworkFailure, random)
    \/ \E hasCode \in BOOLEAN, random \in Randoms : TimeoutFires(c, hasCode, random)
    \/ BackoffDone(c)
    \/ AbortInbound(c)

SpecClient == InitClient /\ [][NextClient]_vars

\* the same client with its timers running: the throttle sleep, the backoff
\* sleep and the abort timer of an attempt end once they are set; nothing is
\* assumed of the server or of the sender
SpecClientFair ==
  /\ InitClient
  /\ [][NextClient]_vars
  /\ WF_vars(Execute("c1"))
  /\ WF_vars(BackoffDone("c1"))
  /\ WF_vars(\E hasCode \in BOOLEAN, random \in Randoms : TimeoutFires("c1", hasCode, random))


\* ─────────────────────── vocabulary of the properties ─────────────────────
IsVendorError(o, codes) ==
  /\ o.type = "response"
  /\ "error" \in DOMAIN o.body
  /\ o.body.error.code \in codes
IsPlain(o) == o.type = "response" /\ "data" \in DOMAIN o.body
IsSuccess(o) == IsPlain(o) /\ o.status \in 200..299
IsTimeout(o) == o.type = "Thrown" /\ o.name = "AbortError"
FailsRetryably(o) ==
  \/ IsVendorError(o, {1, 2, 4, 17, 32})
  \/ (IsPlain(o) /\ o.status >= 500)
  \/ IsTimeout(o)
TerminalCodes == {190, 102, 10, 100, 803, 2650, 9999}
Last(h) == h[Len(h)]
\* the error an attempt's failure gives rise to
IsErrorOf(e, o) ==
  IF o.type = "Thrown" THEN e = o
  ELSE IF "unparseable" \in DOMAIN o.body THEN e = SyntaxError
  ELSE IF "error" \in DOMAIN o.body
    THEN e.type = "McpError" /\ e.metaCode = o.body.error.code
         /\ e.subcode = o.body.error.error_subcode
  ELSE e = HttpError(o.status)

\* C1: if attempts 0..k-1 of an execute call each fail retryably (vendor code
\* 1, 2, 4, 17 or 32, a non-vendor status >= 500, or a timeout) and attempt k
\* receives a 2xx body that is not a vendor error, execute returns exactly
\* that body and fetch() was invoked exactly k+1 times.
C1_RetryThenSuccess ==
  \A c \in Calls :
    LET h == call[c].history IN
    \* while attempts remain, retryable failures lead to the next attempt
    /\ (/\ h # <<>>
        /\ Len(h) <= maxRetries
        /\ \A i \in 1..Len(h) : FailsRetryably(h[i]))
       => /\ call[c].pc \in {"backoff", "inflight"}
          /\ call[c].sends \in {Len(h), Len(h) + 1}
    \* and the success that follows them is what execute returns
    /\ (/\ h # <<>>
        /\ \A i \in 1..(Len(h) - 1) : FailsRetryably(h[i])
        /\ IsSuccess(Last(h)))
       => /\ call[c].pc = "returned"
          /\ call[c].result = Last(h).body
          /\ call[c].sends = Len(h)

C1_Witness ==
  \E c \in Calls :
    /\ Len(call[c].history) = 2
    /\ IsVendorError(call[c].history[1], {1})
    /\ IsSuccess(call[c].history[2])
    /\ call[c].pc = "returned"
    /\ call[c].sends = 2

\* C2: a vendor error of a terminal kind (190, 102, 10, 100, 803, 2650 or an
\* unmapped code) on any attempt makes execute raise that classified error at
\* once: no further request, and no backoff sleep after it.
C2_TerminalRaisesAtOnce ==
  \A c \in Calls :
    LET h == call[c].history IN
    (h # <<>> /\ IsVendorError(Last(h), TerminalCodes))
    => /\ call[c].pc = "raised"
       /\ call[c].result.type = "McpError"
       /\ call[c].result.metaCode = Last(h).body.error.code
       /\ call[c].sends = Len(h)
       /\ call[c].sleeps = Len(h) - 1

C2_Witness ==
  \E c \in Calls :
    /\ maxRetries >= 2
    /\ Len(call[c].history) = 2
    /\ IsVendorError(call[c].history[2], {803})
    /\ call[c].pc = "raised"
    /\ call[c].sends = 2

ResolutionOrder(c) ==
  IF call[c].ctx # NoToken THEN call[c].ctx
  ELSE IF activeTokenName # NoName /\ tokens[activeTokenName] # NoToken
    THEN tokens[activeTokenName]
  ELSE envToken
\* the token a request carries, wherever it carries it
Carried(r) == IF r.method = "postMultipart" THEN r.formToken ELSE r.queryToken

\* C4: resolve() returns the per-call override when present, else the
\* registry's active token when set, else META_ACCESS_TOKEN, and raises the
\* no-credential error only when all three are absent.
C4_ResolutionOrder ==
  [][\A c \in Calls :
       /\ (call[c].pc = "throttle" /\ call'[c].pc # "throttle")
          => IF ResolutionOrder(c) = NoToken
               THEN call'[c].pc = "raised" /\ call'[c].result = NoTokenError
               ELSE call'[c].pc = "inflight" /\ call'[c].token = ResolutionOrder(c)
       /\ (call[c].pc = "handler" /\ call'[c].method = "postMultipart")
          => IF ResolutionOrder(c) = NoToken
               THEN call'[c].pc = "raised" /\ call'[c].result = NoTokenError
               ELSE call'[c].pc = "throttle" /\ call'[c].formToken = ResolutionOrder(c)
    ]_vars

C4_Witness ==
  \E c \in Calls :
    /\ call[c].pc = "inflight"
    /\ call[c].ctx # NoToken
    /\ call[c].token = call[c].ctx
    /\ activeTokenName # NoName
    /\ tokens[activeTokenName] \notin {NoToken, call[c].ctx}
    /\ envToken \notin {NoToken, call[c].ctx}

\* C5: under any interleaving of concurrent inbound calls and registry
\* operations, every request sent for a call that arrived with an override
\* carries that call's own override token.
C5_OverrideConfined ==
  \A r \in requests :
    call[r.call].header # NoToken => Carried(r) = call[r.call].header

C5_Witness ==
  \E r1, r2 \in requests :
    /\ r1.call # r2.call
    /\ call[r1.call].header # NoToken
    /\ call[r2.call].header # NoToken
    /\ Carried(r1) # Carried(r2)
    /\ call[r1.call].pc = "inflight" /\ call[r1.call].sends >= 2
    /\ call[r2.call].pc = "backoff"
    /\ activeTokenName # NoName
    /\ tokens[activeTokenName] # envToken

\* C6: a header-less HTTP /mcp request uses the registry's active token
\* whenever one is set, and META_ACCESS_TOKEN only when none is set.
C6_HeaderlessUsesRegistry ==
  [][\A c \in Calls :
       (/\ transport = "http"
        /\ call[c].header = NoToken
        /\ call[c].pc = "throttle"
        /\ call'[c].pc = "inflight")
       => call'[c].token =
            IF activeTokenName # NoName /\ tokens[activeTokenName] # NoToken
              THEN tokens[activeTokenName] ELSE envToken
    ]_vars

\* C7: a non-2xx response below 500 whose body is not a vendor error is not
\* retried: execute raises the HTTP error after that attempt and sends
\* nothing more, for any maxRetries.
C7_ClientErrorNotRetried ==
  \A c \in Calls :
    LET h == call[c].history IN
    \A i \in 1..Len(h) :
      (IsPlain(h[i]) /\ ~IsSuccess(h[i]) /\ h[i].status < 500)
      => /\ i = Len(h)
         /\ call[c].pc = "raised"
         /\ call[c].result = HttpError(h[i].status)
         /\ call[c].sends = i

\* C8: a vendor error with code 613 is RateLimited and retried like 4, 17 and
\* 32: recorded as the last error, followed by a backoff and another attempt
\* while attempts remain.
C8_Code613Retried ==
  \A c \in Calls :
    LET h == call[c].history IN
    (h # <<>> /\ IsVendorError(Last(h), {613}) /\ Len(h) <= maxRetries)
    => /\ call[c].pc \in {"backoff", "inflight"}
       /\ call[c].lastError.type = "McpError"
       /\ call[c].lastError.metaCode = 613
       /\ call[c].lastError.detail = "RateLimited"

\* no override, no active registry token and no fallback token
NoCredential(c) ==
  /\ call[c].ctx = NoToken
  /\ activeTokenName = NoName \/ tokens[activeTokenName] = NoToken
  /\ envToken = NoToken

\* C9: when no credential can be resolved, every facade call raises the
\* no-credential error without invoking fetch(), and is not retried.
C9_NoCredentialNoTransport ==
  \A c \in Calls :
    NoCredential(c)
    => /\ call[c].pc \in {"idle", "handler", "throttle", "raised"}
       /\ call[c].pc = "raised" => call[c].result = NoTokenError
       /\ call[c].sends = 0
       /\ call[c].sleeps = 0
       /\ \A r \in requests : r.call # c

C9_Witness ==
  \E c \in Calls :
    /\ NoCredential(c)
    /\ call[c].method = "getPaginated"
    /\ call[c].pc = "raised"
    /\ call[c].result = NoTokenError
    /\ requests = {}

\* C10: every request carries the credential resolved for its call as
\* access_token: in the URL query for get, post, postForm and delete, and as
\* a form field, not in the query, for postMultipart.
C10_TokenPlacement ==
  \A r \in requests :
    /\ ResolutionOrder(r.call) # NoToken
    /\ IF r.method = "postMultipart"
         THEN r.formToken = ResolutionOrder(r.call) /\ r.queryToken = NoToken
         ELSE r.queryToken = ResolutionOrder(r.call) /\ r.formToken = NoToken

C10_Witness ==
  \E r \in requests :
    /\ r.method = "postMultipart"
    /\ r.formToken = "tokA"
    /\ r.queryToken = NoToken
    /\ call[r.call].sends >= 2

\* ───────────────────────────── paginator claims ───────────────────────────
\* the items of a list of pages, page after page
RECURSIVE Concat(_)
Concat(pages) ==
  IF pages = <<>> THEN <<>> ELSE Head(pages).data \o Concat(Tail(pages))

\* the number of items in the first i pages obtained
Collected(i) == Len(Concat(SubSeq(pager.seen, 1, i)))

\* C11: what collectAllPages returns is the first maxItems items of the
\* first page's items followed by the items of every page it fetched, in
\* fetch order, nothing moved and nothing dropped as a duplicate; so it is
\* never longer than maxItems.
C11_FirstItemsInFetchOrder ==
  pager.pc = "returned" =>
    LET all == Concat(pager.seen) IN
      /\ Len(pager.result) <= pager.maxItems
      /\ Len(pager.result) = IF Len(all) < pager.maxItems THEN Len(all) ELSE pager.maxItems
      /\ \A i \in 1..Len(pager.result) : pager.result[i] = all[i]

\* three pages, more items than the limit, a repeated item kept and a
\* larger item ahead of a smaller one
C11_Witness ==
  /\ pager.pc = "returned"
  /\ Len(pager.seen) = 3
  /\ Len(Concat(pager.seen)) > pager.maxItems
  /\ pager.result = <<2, 2, 1>>

\* C12: the continuation is invoked only when fewer than maxItems items are
\* collected and the page obtained last has an `after` cursor, and it is
\* passed that cursor; after a page without an `after` cursor (a `next` link
\* or not), or once maxItems items are collected, it is not invoked again.
C12_ContinuationOnlyWithCursor ==
  /\ \A i \in 1..Len(pager.cursors) :
       /\ i <= Len(pager.seen)
       /\ pager.cursors[i] = pager.seen[i].paging.after
       /\ pager.seen[i].paging.after # NoCursor
       /\ Collected(i) < pager.maxItems
  /\ pager.pc \in {"await", "rejected"} => Len(pager.cursors) = Len(pager.seen)
  /\ pager.pc = "returned" => Len(pager.cursors) = Len(pager.seen) - 1

\* two continuation calls with different cursors, then a page that has a
\* `next` link and no `after` cursor while the limit is not reached
C12_Witness ==
  /\ pager.pc = "returned"
  /\ pager.cursors = <<"a", "b">>
  /\ pager.seen[3].paging = [after |-> NoCursor, next |-> "url"]
  /\ Collected(3) < pager.maxItems

\* ─────────────────────────── rate limiter claims ──────────────────────────
\* the tracked usage, in steps of 1/UsageScale percent
TrackedUsage == Max(limiter.appUsagePercent, limiter.accountUsagePercent)

\* getThrottleDelay() or currentUsage was read in this state of the limiter
HasRead(op) == limiter.read # <<>> /\ limiter.read[1].op = op
ReadValue == limiter.read[1].value

\* the delay at a tracked usage of u
DelayAt(u) == GetThrottleDelay(u, 0)

\* the delay read is at least the delay at every lower usage down to `from`
NonDecreasingFrom(from) == \A v \in from..TrackedUsage : DelayAt(v) <= ReadValue

\* C13 as stated: at every tracked usage of 95 percent or more, values above
\* 100 included, the delay lies within [5000, 60000] ms and does not
\* decrease as the usage grows.
C13_HighBandWithin60000 ==
  (HasRead("getThrottleDelay") /\ TrackedUsage >= Percent(95)) =>
    /\ ReadValue \in 5000..60000
    /\ NonDecreasingFrom(Percent(95))

\* C13, amended: at every tracked usage of 95 percent or more the delay is
\* at least 5000 ms and does not decrease as the usage grows; it is at most
\* 60000 ms up to 100 percent and more than 60000 ms above 100 percent.
C13_HighBandFrom5000 ==
  (HasRead("getThrottleDelay") /\ TrackedUsage >= Percent(95)) =>
    /\ ReadValue >= 5000
    /\ NonDecreasingFrom(Percent(95))
    /\ TrackedUsage <= Percent(100) => ReadValue <= 60000
    /\ TrackedUsage > Percent(100) => ReadValue > 60000

\* a header reported more than 100 percent and the delay was read
C13_Witness ==
  /\ HasRead("getThrottleDelay")
  /\ limiter.headers.app.kind = "json"
  /\ TrackedUsage > Percent(100)
  /\ ReadValue > 60000

\* C14: below 75 percent, and before any header was seen, the delay is 0;
\* from 75 percent to below 95 percent it lies within [100, 2000] ms and
\* does not decrease as the usage grows.
C14_LowBandDelay ==
  HasRead("getThrottleDelay") =>
    /\ TrackedUsage < Percent(75) => ReadValue = 0
    /\ limiter.completion = "none" => ReadValue = 0
    /\ (TrackedUsage >= Percent(75) /\ TrackedUsage < Percent(95)) =>
         /\ ReadValue \in 100..2000
         /\ NonDecreasingFrom(Percent(75))

\* the delay was read just below 95 percent, where it is a rounded figure
\* above 1900 ms
C14_Witness ==
  /\ HasRead("getThrottleDelay")
  /\ TrackedUsage = Percent(95) - 1
  /\ ReadValue > 1900

\* C15: an update whose usage header is absent or is not valid JSON returns
\* normally and leaves that header's percentage as it was; when that holds
\* for both headers, currentUsage and the delay are as they were.
C15_BadHeaderKeepsUsage ==
  [][ /\ limiter'.completion # "throw"
      /\ limiter'.headers.app.kind # "json" =>
           limiter'.appUsagePercent = limiter.appUsagePercent
      /\ limiter'.headers.business.kind # "json" =>
           limiter'.accountUsagePercent = limiter.accountUsagePercent
      /\ (limiter'.headers.app.kind # "json" /\ limiter'.headers.business.kind # "json") =>
           /\ CurrentUsage(limiter'.appUsagePercent, limiter'.accountUsagePercent)
                = CurrentUsage(limiter.appUsagePercent, limiter.accountUsagePercent)
           /\ GetThrottleDelay(limiter'.appUsagePercent, limiter'.accountUsagePercent)
                = GetThrottleDelay(limiter.appUsagePercent, limiter.accountUsagePercent)
    ]_vars

\* the last update had an application header that does not parse and no
\* business header, it returned, and both percentages are still not 0
C15_Witness ==
  /\ limiter.headers = [app |-> Malformed, business |-> Absent]
  /\ limiter.completion = "return"
  /\ limiter.appUsagePercent >= Percent(95)
  /\ limiter.accountUsagePercent = Percent(80)

\* the largest member of a non-empty set of numbers
Largest(S) == CHOOSE m \in S : \A x \in S : x <= m

\* the metrics a usage object has
MetricsOf(o) == {o.call_count, o.total_cputime, o.total_time} \ {Missing}

\* the metrics of all entries of all accounts of a business header
MetricsOfAll(accounts) ==
  UNION {UNION {MetricsOf(accounts[i][j]) : j \in DOMAIN accounts[i]} : i \in DOMAIN accounts}

\* C16: after an update the application percentage is the largest of the
\* metrics of the application header, a missing one counting as 0, and the
\* business percentage is the largest metric of all entries of all accounts
\* of the business header; a percentage whose header did not come with this
\* response keeps the value of the last response that carried it; and
\* currentUsage is the larger of the two percentages.
C16_UsageIsLargestMetric ==
  [][ /\ limiter'.headers.app.kind = "json" =>
           limiter'.appUsagePercent = Largest(MetricsOf(limiter'.headers.app.value) \cup {0})
      /\ limiter'.headers.app.kind # "json" =>
           limiter'.appUsagePercent = limiter.appUsagePercent
      /\ limiter'.headers.business.kind = "json" =>
           limiter'.accountUsagePercent =
             Largest(MetricsOfAll(limiter'.headers.business.value) \cup {0})
      /\ limiter'.headers.business.kind # "json" =>
           limiter'.accountUsagePercent = limiter.accountUsagePercent
      /\ (limiter'.read # <<>> /\ limiter'.read[1].op = "currentUsage") =>
           limiter'.read[1].value =
             Largest({limiter'.appUsagePercent, limiter'.accountUsagePercent})
    ]_vars

\* the application percentage comes from an earlier response, the last one
\* carried two business accounts whose largest metric is a total_cputime,
\* and currentUsage was read
C16_Witness ==
  /\ limiter.headers.app = Absent
  /\ limiter.appUsagePercent = Percent(90)
  /\ limiter.headers.business =
       Json(<<<<UsageObject(Percent(80), Missing, Missing)>>,
              <<UsageObject(Percent(10), Percent(96), 0)>>>>)
  /\ HasRead("currentUsage")
  /\ ReadValue = Percent(96)

\* ───────────────────────────── registry claims ────────────────────────────
\* the registry call i left behind: the one the next call found, or the
\* present one
Left(i) ==
  IF i < Len(replies) THEN replies[i + 1].found
  ELSE [tokens |-> tokens, activeTokenName |-> activeTokenName]

IsCall(i, op) == i \in 1..Len(replies) /\ replies[i].op = op

\* C17: register(name, token) sets name's token and no other; with no
\* active name before, name becomes active, otherwise the active name
\* stays; so a resolution without override right after registering into a
\* registry with no active name gives the registered token.
C17_RegisterActivatesFirst ==
  \A i \in 1..Len(replies) :
    IsCall(i, "registerToken") =>
      LET r == replies[i] IN
        /\ Left(i).tokens[r.name] = r.token
        /\ \A m \in Names \ {r.name} : Left(i).tokens[m] = r.found.tokens[m]
        /\ Left(i).activeTokenName =
             IF r.found.activeTokenName = NoName THEN r.name ELSE r.found.activeTokenName
        /\ (r.found.activeTokenName = NoName /\ IsCall(i + 1, "getAccessToken")) =>
             replies[i + 1].value = r.token

\* a token registered while another token is in the map, none is active and
\* META_ACCESS_TOKEN holds a third value, then resolved
C17_Witness ==
  /\ IsCall(1, "registerToken")
  /\ replies[1].found.activeTokenName = NoName
  /\ HasTokens(replies[1].found.tokens)
  /\ envToken # NoToken
  /\ IsCall(2, "getAccessToken")
  /\ replies[2].value = replies[1].token
  /\ replies[2].value # envToken

\* C18: setActive(name) returns true exactly when name is registered; on
\* true the active name is name, on false the active name is what it was;
\* the token map is what it was either way.
C18_SetActiveIffRegistered ==
  \A i \in 1..Len(replies) :
    IsCall(i, "setActiveToken") =>
      LET r == replies[i] IN
        /\ r.value = (r.found.tokens[r.name] # NoToken)
        /\ Left(i).tokens = r.found.tokens
        /\ Left(i).activeTokenName =
             IF r.value THEN r.name ELSE r.found.activeTokenName

\* a name refused while another name is active, then registered, then
\* accepted, which changes the active name
C18_Witness ==
  /\ IsCall(1, "setActiveToken")
  /\ ~replies[1].value
  /\ replies[1].found.activeTokenName # NoName
  /\ IsCall(2, "registerToken")
  /\ IsCall(3, "setActiveToken")
  /\ replies[3].value
  /\ replies[3].found.activeTokenName # replies[3].name
  /\ activeTokenName = replies[3].name

\* no register or setActive call in calls i+1 .. j-1
NoWriteBetween(i, j) ==
  \A k \in (i + 1)..(j - 1) : replies[k].op \notin {"registerToken", "setActiveToken"}

\* C19: list() leaves the token map and the active name as they were; it
\* returns the active name and the registered names, none of them a token
\* value; two calls with no register or setActive call between them return
\* the same.
C19_ListReadsOnly ==
  \A i \in 1..Len(replies) :
    IsCall(i, "listTokens") =>
      LET r == replies[i] IN
        /\ Left(i) = r.found
        /\ r.value.active = r.found.activeTokenName
        /\ r.value.available = {n \in Names : r.found.tokens[n] # NoToken}
        /\ (r.value.available \cup {r.value.active}) \cap Tokens = {}
        /\ \A j \in (i + 1)..Len(replies) :
             (IsCall(j, "listTokens") /\ NoWriteBetween(i, j)) => replies[j].value = r.value

\* two list() calls with a resolution between them, on a registry of two
\* names
C19_Witness ==
  /\ IsCall(1, "listTokens")
  /\ IsCall(2, "getAccessToken")
  /\ IsCall(3, "listTokens")
  /\ replies[3].value.available = Names
  /\ replies[3].value.active # NoName

ExpectedKind(k) ==
  CASE k = 190 -> "AuthExpired"
    [] k = 102 -> "AuthRequired"
    [] k = 10 -> "PermissionDenied"
    [] k = 4 -> "RateLimited"
    [] k \in {1, 2} -> "TransientServerError"
    [] k = 100 -> "InvalidParameter"
    [] k = 803 -> "NotFound"
    [] k = 2650 -> "Duplicate"
    [] OTHER -> "Unknown"
TableCodes == {190, 102, 10, 4, 1, 2, 100, 803, 2650, 9999}
RetriedCodes == {4, 1, 2}
\* the last response of the call is a vendor error with one of `codes` and
\* subcode sub
LastIsVendorError(c, codes, sub) ==
  /\ call[c].history # <<>>
  /\ IsVendorError(Last(call[c].history), codes)
  /\ Last(call[c].history).body.error.error_subcode = sub

\* C21: a vendor error without subcode is classified by its code: 190
\* AuthExpired, 102 AuthRequired, 10 PermissionDenied, 100 InvalidParameter,
\* 803 NotFound, 2650 Duplicate, an unmapped code (9999) Unknown with the raw
\* code in the message, and execute raises each of these at once; 4
\* RateLimited and 1, 2 TransientServerError are retried: execute sleeps, and
\* sends again unless the attempts are used up, when it raises that error.
C21_KindAndRetryByCode ==
  \A c \in Calls : \A k \in TableCodes :
    LastIsVendorError(c, {k}, 0) =>
      LET h == call[c].history
          e == IF k \in RetriedCodes THEN call[c].lastError ELSE call[c].result
      IN /\ e.type = "McpError"
         /\ e.metaCode = k
         /\ e.detail = ExpectedKind(k)
         /\ (k = 9999) => e.quoted.code = k
         /\ IF k \in RetriedCodes
              THEN \/ call[c].pc = "backoff" /\ call[c].sends = Len(h)
                   \/ call[c].pc = "inflight" /\ call[c].sends = Len(h) + 1
                   \/ /\ call[c].pc = "raised"
                      /\ Len(h) = maxRetries + 1
                      /\ call[c].result = e
              ELSE call[c].pc = "raised" /\ call[c].sends = Len(h)

C21_Witness ==
  \E c \in Calls :
    /\ Len(call[c].history) = 2
    /\ IsVendorError(call[c].history[1], {4})
    /\ call[c].history[1].body.error.error_subcode = 0
    /\ LastIsVendorError(c, {9999}, 0)
    /\ call[c].pc = "raised"
    /\ call[c].result.detail = "Unknown"
    /\ call[c].result.quoted.code = 9999

\* C22: a vendor error with code 100 and subcode 33 is classified NotFound,
\* as code 803 is.
C22_Subcode33IsNotFound ==
  \A c \in Calls :
    (LastIsVendorError(c, {100}, 33) /\ call[c].pc = "raised")
    => call[c].result.detail = "NotFound"

\* ───────────────────────── claims on the executor ─────────────────────────
\* C29: execute sleeps for backoff only between attempts: one call performs at
\* most maxRetries backoff sleeps, and a call that has sent its final attempt
\* (attempt = maxRetries) is never in a backoff sleep.
C29_BackoffOnlyBetweenAttempts ==
  \A c \in Calls :
    /\ call[c].sleeps <= maxRetries
    /\ call[c].pc = "backoff" => call[c].attempt < maxRetries

\* ───────────────────── claims on the paginator's bound ────────────────────
\* C28: a collectAllPages run with maxItems = N invokes the continuation at
\* most N times, whatever pages it is given.
C28_AtMostMaxItemsFetches ==
  Len(pager.cursors) <= pager.maxItems

\* ───────────────────── claims on the registry's active name ───────────────
\* C30: whenever the registry holds at least one token, an active name is set
\* and names a registered token, so getActiveToken() is non-null whenever
\* hasTokens() is true.
C30_TokensImplyActive ==
  HasTokens(tokens) =>
    /\ activeTokenName # NoName
    /\ tokens[activeTokenName] # NoToken
    /\ GetActiveToken(tokens, activeTokenName) # NoToken

\* ─────────────────── claims on the executor's suspensions ─────────────────
Running(c) == call[c].pc \in {"throttle", "inflight", "reading", "backoff"}
Settled(c) == call[c].pc \in {"returned", "raised"}

\* C23: under any server behaviour, a server that stalls after sending the
\* headers of a response included, every execute call eventually returns or
\* raises.
C23_EveryCallSettles ==
  Running("c1") ~> Settled("c1")

\* C24: before every send of an execute call, the first attempt and each
\* retry alike, the executor has read the throttle delay and slept it: a call
\* has never sent more often than it has waited on the throttle.
C24_ThrottleBeforeEverySend ==
  \A c \in Calls : call[c].sends <= call[c].throttles

\* the latest response call c has received: the one whose body it is reading,
\* or else the last response of its history (NoError when there is none)
RECURSIVE LastResponseIn(_)
LastResponseIn(h) ==
  IF h = <<>> THEN NoError
  ELSE IF Last(h).type = "response" THEN Last(h)
  ELSE LastResponseIn(SubSeq(h, 1, Len(h) - 1))
LatestResponse(c) ==
  IF call[c].pc = "reading" THEN call[c].pending ELSE LastResponseIn(call[c].history)
\* the x-app-usage figure of the client's responses that report one
Reports(o, p) == HeadersOf(o) = Usage(p)

\* C25: for every response received, success, vendor error or non-2xx alike,
\* the usage tracker has been updated from its headers before the executor
\* returns, retries or raises: at every point of the call the tracker holds
\* the headers of the latest response, and the app figure they report.
C25_TrackerSeesEveryResponse ==
  LET o == LatestResponse("c1") IN
  o # NoError =>
    /\ limiter.completion = "return"
    /\ limiter.headers = HeadersOf(o)
    /\ \A p \in {10, 80} : Reports(o, p) => limiter.appUsagePercent = Percent(p)

C25_Witness ==
  /\ call["c1"].pc = "raised"
  /\ Len(call["c1"].history) = 2
  /\ call["c1"].history[1].type = "response"
  /\ call["c1"].history[1].status = 500 /\ Reports(call["c1"].history[1], 10)
  /\ IsVendorError(call["c1"].history[2], {190}) /\ Reports(call["c1"].history[2], 80)
  /\ limiter.appUsagePercent = Percent(80)

\* C26: the backoff sleep after failed attempt k lasts at least 1000 * 2^k
\* and at most 1100 * 2^k milliseconds.
C26_BackoffWithinTenPercent ==
  \A c \in Calls :
    call[c].pc = "backoff" =>
      /\ call[c].backoffMs >= 1000 * 2^(call[c].attempt)
      /\ call[c].backoffMs <= 1100 * 2^(call[c].attempt)

C26_Witness ==
  /\ call["c1"].pc = "backoff"
  /\ call["c1"].attempt = 1
  /\ call["c1"].backoffMs > 2100

\* C27: once the inbound call is aborted while execute is retrying, execute
\* sends no further attempt.
C27_NoSendAfterAbort ==
  \A c \in Calls : call[c].lateSends = 0
====
